---- MODULE Spec2Model ----
(***************************************************************************)
(* Model of src/app.py (media-dashboard): one Streamlit session.  A script *)
(* run (Render) fetches the aggregated table from the remote sheet service *)
(* when the session holds none (or an empty one), then derives the overdue *)
(* and due-in-7-days views.  Strings that the code inspects character by   *)
(* character (sheet names, column titles) are sequences of one-character   *)
(* strings; strings the code only compares or copies are TLA+ strings.     *)
(***************************************************************************)
EXTENDS Integers, Sequences, FiniteSets, TLC

\* ------------------------------------------------------------------ bounds
NumFolders == 2
NumSheets == 2
MaxRows == 2
MaxCols == 3
TicksPerDay == 2

\* --------------------------------------------------------- python helpers
None == "<None>"

NoCol == 0

Truthy(v) == v # None /\ v # ""

LowerCase == <<"a","b","c","d","e","f","g","h","i","j","k","l","m",
               "n","o","p","q","r","s","t","u","v","w","x","y","z">>

UpperIndex ==
  ("A" :> 1) @@ ("B" :> 2) @@ ("C" :> 3) @@ ("D" :> 4) @@ ("E" :> 5) @@ ("F" :> 6)
  @@ ("G" :> 7) @@ ("H" :> 8) @@ ("I" :> 9) @@ ("J" :> 10) @@ ("K" :> 11)
  @@ ("L" :> 12) @@ ("M" :> 13) @@ ("N" :> 14) @@ ("O" :> 15) @@ ("P" :> 16)
  @@ ("Q" :> 17) @@ ("R" :> 18) @@ ("S" :> 19) @@ ("T" :> 20) @@ ("U" :> 21)
  @@ ("V" :> 22) @@ ("W" :> 23) @@ ("X" :> 24) @@ ("Y" :> 25) @@ ("Z" :> 26)

lower_char(c) == IF c \in DOMAIN UpperIndex THEN LowerCase[UpperIndex[c]] ELSE c

str_lower(s) == [i \in 1..Len(s) |-> lower_char(s[i])]

SetMin(S) == CHOOSE x \in S : \A y \in S : x <= y

SetMax(S) == CHOOSE x \in S : \A y \in S : y <= x

strip_at(s, idx) ==
  IF idx = {} THEN <<>> ELSE SubSeq(s, SetMin(idx), SetMax(idx))

str_strip(s) == strip_at(s, {i \in 1..Len(s) : s[i] # " "})

str_contains(sub, s) ==
  \E i \in 0..(Len(s) - Len(sub)) : SubSeq(s, i + 1, i + Len(sub)) = sub

RECURSIVE SortedSeq(_)
SortedSeq(S) ==
  IF S = {} THEN <<>> ELSE <<SetMin(S)>> \o SortedSeq(S \ {SetMin(S)})

RECURSIVE Flatten(_)
Flatten(ss) == IF ss = <<>> THEN <<>> ELSE Head(ss) \o Flatten(Tail(ss))

SeqUpTo(S, n) == UNION {[1..k -> S] : k \in 0..n}

\* ---------------------------------------------------------- configuration
TARGET_FILE_KEYWORD == <<"P","r","o","j","e","c","t"," ","P","l","a","n">>

END_ALIASES ==
  << <<"F","i","n","i","s","h"," ","D","a","t","e">>,
     <<"T","a","r","g","e","t"," ","E","n","d"," ","D","a","t","e">>,
     <<"F","i","n","i","s","h">> >>

START_ALIASES ==
  << <<"S","t","a","r","t"," ","D","a","t","e">>,
     <<"T","a","r","g","e","t"," ","S","t","a","r","t"," ","D","a","t","e">>,
     <<"S","t","a","r","t">> >>

STATUS_ALIASES ==
  << <<"S","t","a","t","u","s">>,
     <<"%"," ","C","o","m","p","l","e","t","e">>,
     <<"P","r","o","g","r","e","s","s">> >>

ASSIGN_ALIASES ==
  << <<"A","s","s","i","g","n","e","d"," ","T","o">>,
     <<"P","r","o","j","e","c","t"," ","O","w","n","e","r">>,
     <<"F","u","n","c","t","i","o","n","a","l"," ","O","w","n","e","r">> >>

TASK_ALIASES ==
  << <<"T","a","s","k"," ","N","a","m","e">>,
     <<"P","r","o","j","e","c","t"," ","N","a","m","e">>,
     <<"T","a","s","k">>,
     <<"A","c","t","i","v","i","t","y">> >>

done_statuses == {"Complete", "Done", "Shipped", "Cancelled", "Complete / Shipped"}

UrgentDays == 7

\* ------------------------------------------------------------------ state
VARIABLES
  parent,          \* remote: folder -> the container holding it (Root or a folder)
  sheetLoc,        \* remote: sheet -> the container holding it
  sheetName,       \* remote: sheet -> its name
  sheetCols,       \* remote: sheet -> its columns, [title, id]
  sheetRows,       \* remote: sheet -> its rows, [cells, permalink]
  rootKind,        \* last fetch: how ROOT_ID resolved
  failFolders,     \* last fetch: the folders whose get_folder raised
  sheetFail,       \* last fetch: sheet -> where reading it raised
  in_session,      \* "master_df" in st.session_state
  master_df,       \* st.session_state["master_df"]
  rerun,           \* st.rerun() was requested and the script has not run yet
  fetched,         \* the last script run called fetch_data_from_api
  calls,           \* remote calls the last script run made
  found_sheets,    \* found_sheets of the last fetch
  raised,          \* the last script run ended with an uncaught exception
  screen,          \* what the last script run rendered
  now,             \* pd.Timestamp.now() of the last script run
  selected_person, \* the selectbox value of the last script run
  overdue,         \* the overdue view of the last script run
  urgent,          \* the due-in-7-days view of the last script run
  res_schema,      \* resolver harness: the columns handed to get_specific_col_id
  res_aliases,     \* resolver harness: the alias list handed to it
  res_col,         \* resolver harness: what it returned
  res_done         \* resolver harness: it has been applied

vars == <<parent, sheetLoc, sheetName, sheetCols, sheetRows, rootKind,
          failFolders, sheetFail, in_session, master_df, rerun, fetched,
          calls, found_sheets, raised, screen, now, selected_person,
          overdue, urgent, res_schema, res_aliases, res_col, res_done>>

remoteVars == <<parent, sheetLoc, sheetName, sheetCols, sheetRows>>

resVars == <<res_schema, res_aliases, res_col, res_done>>

Root == 0

Folders == 1..NumFolders

Sheets == 1..NumSheets

Containers == {Root} \cup Folders

ContainerName(c) ==
  IF c = Root THEN "Active Projects"
  ELSE IF c % 2 = 1 THEN "Alpha" ELSE "Beta"

\* ------------------------------------------------------- column resolver
clean(name) == str_lower(str_strip(name))

\* sheet_cols: the items of the dict comprehension, in insertion order; a later
\* column with the same cleaned title replaces an earlier one.
sheet_cols(cols) ==
  [i \in 1..Len(cols) |-> [key |-> clean(cols[i].title), id |-> cols[i].id]]

dict_has(items, key) == \E i \in 1..Len(items) : items[i].key = key

\* mutant: the position of the column instead of its id
dict_get_m(items, key) == SetMax({i \in 1..Len(items) : items[i].key = key})

dict_get(items, key) ==
  items[SetMax({i \in 1..Len(items) : items[i].key = key})].id

\* for name in target_names: the first name that is a key decides.
RECURSIVE find_col(_, _), check_name(_, _, _)
check_name(items, clean_name, rest) ==
  IF dict_has(items, clean_name) THEN dict_get(items, clean_name)
  ELSE find_col(items, rest)

find_col(items, names) ==
  IF names = <<>> THEN NoCol
  ELSE check_name(items, clean(Head(names)), Tail(names))

get_specific_col_id(cols, target_names) == find_col(sheet_cols(cols), target_names)

cell_value(cell) ==
  IF Truthy(cell.display_value) THEN cell.display_value
  ELSE IF Truthy(cell.value) THEN cell.value
  ELSE None

first_cell(row, at) == IF at = {} THEN None ELSE cell_value(row.cells[SetMin(at)])

get_cell_value(row, col_id) ==
  IF col_id = NoCol THEN None
  ELSE first_cell(row, {i \in 1..Len(row.cells) : row.cells[i].column_id = col_id})

OrDefault(v, d) == IF Truthy(v) THEN v ELSE d

\* ------------------------------------------------------ container walker
FolderSeq(c) == SortedSeq({f \in Folders : parent[f] = c})

SheetSeq(c) == SortedSeq({s \in Sheets : sheetLoc[s] = c})

\* mutant: the keyword is compared with regard to case
name_matches_m(s) == str_contains(TARGET_FILE_KEYWORD, sheetName[s])

name_matches(s) ==
  str_contains(str_lower(TARGET_FILE_KEYWORD), str_lower(sheetName[s]))

tag_sheets(hit, context) ==
  [i \in 1..Len(hit) |-> [sheet |-> hit[i], context |-> context]]

scan_sheets(container) ==
  tag_sheets(SelectSeq(SheetSeq(container), name_matches), ContainerName(container))

NothingFound == [found |-> <<>>, calls |-> 0]

\* One get_folder call for the child, then its subtree, then the later siblings.
folder_step(sub, rest) ==
  [found |-> sub.found \o rest.found, calls |-> 1 + sub.calls + rest.calls]

container_step(own, sub) == [found |-> own \o sub.found, calls |-> sub.calls]

\* mutant: a failed folder fetch ends the scan of its siblings
on_folder_error_m(rest) == NothingFound

\* except: continue -- the walk goes on with the later siblings.
on_folder_error(rest) == rest

RECURSIVE scan(_, _), scan_folders(_, _)
scan_folders(fs, ff) ==
  IF fs = <<>> THEN NothingFound
  ELSE IF Head(fs) \in ff
       THEN folder_step(NothingFound, on_folder_error(scan_folders(Tail(fs), ff)))
       ELSE folder_step(scan(Head(fs), ff), scan_folders(Tail(fs), ff))

scan(container, ff) ==
  container_step(scan_sheets(container), scan_folders(FolderSeq(container), ff))

\* ---------------------------------------------------------- row extractor
\* mutant: the "needs assignee or date" policy on top of the task
keep_row_m(task_val, assign_val, end_val) ==
  Truthy(task_val) /\ (Truthy(assign_val) \/ Truthy(end_val))

keep_row(task_val, assign_val, end_val) == Truthy(task_val)

\* The column mapping of one sheet (resolved once per sheet, before its rows).
col_mapping(cols) ==
  [end_date_id   |-> get_specific_col_id(cols, END_ALIASES),
   start_date_id |-> get_specific_col_id(cols, START_ALIASES),
   status_id     |-> get_specific_col_id(cols, STATUS_ALIASES),
   assign_id     |-> get_specific_col_id(cols, ASSIGN_ALIASES),
   task_id       |-> get_specific_col_id(cols, TASK_ALIASES)]

normalized_row(item, row, task_val, stat_val, asgn_val, strt_val, end_val) ==
  IF ~keep_row(task_val, asgn_val, end_val) THEN <<>>
  ELSE << [Project     |-> item.context,
           Task        |-> task_val,
           Status      |-> OrDefault(stat_val, "Not Started"),
           Assigned_To |-> OrDefault(asgn_val, "Unassigned"),
           Start_Date  |-> strt_val,
           End_Date    |-> end_val,
           Link        |-> row.permalink] >>

make_row(item, ids, row) ==
  normalized_row(item, row,
                 get_cell_value(row, ids.task_id),
                 get_cell_value(row, ids.status_id),
                 get_cell_value(row, ids.assign_id),
                 get_cell_value(row, ids.start_date_id),
                 get_cell_value(row, ids.end_date_id))

rows_upto(item, ids, rows, upto) ==
  Flatten([j \in 1..upto |-> make_row(item, ids, rows[j])])

\* Where the row loop of a sheet of n rows stops: fail.stage = "get_sheet" is
\* Sheets.get_sheet raising; "row" is the loop body raising at row fail.row,
\* after the rows before it were appended to all_rows.
sheet_failed(fail, n) ==
  fail.stage = "get_sheet" \/ (fail.stage = "row" /\ fail.row <= n)

rows_reached(fail, n) ==
  IF fail.stage = "get_sheet" THEN 0
  ELSE IF fail.stage = "row" /\ fail.row <= n THEN fail.row - 1
  ELSE n

\* The rows one sheet appends to all_rows, and whether reading it raised.
extract_sheet(item, fail) ==
  [rows   |-> rows_upto(item, col_mapping(sheetCols[item.sheet]),
                        sheetRows[item.sheet],
                        rows_reached(fail, Len(sheetRows[item.sheet]))),
   failed |-> sheet_failed(fail, Len(sheetRows[item.sheet]))]

\* mutant: a failed sheet ends the loop over the sheets
on_sheet_error_m(appended, rest) == [rows |-> appended, raised |-> FALSE]

\* except: continue -- what the sheet appended stays, the later sheets follow.
on_sheet_error(appended, rest) ==
  [rows |-> appended \o rest.rows, raised |-> rest.raised]

sheet_step(one, rest) ==
  IF one.failed THEN on_sheet_error(one.rows, rest)
  ELSE [rows |-> one.rows \o rest.rows, raised |-> rest.raised]

RECURSIVE extract_all(_, _)
extract_all(found, sf) ==
  IF found = <<>> THEN [rows |-> <<>>, raised |-> FALSE]
  ELSE sheet_step(extract_sheet(Head(found), sf[Head(found).sheet]),
                  extract_all(Tail(found), sf))

\* ------------------------------------------------------------ data engine
NoCalls == [get_workspace |-> 0, get_folder |-> 0, get_sheet |-> 0]

\* mutant: no handler around the root lookup
on_root_error_m(rk) ==
  [rows |-> <<>>, found |-> <<>>, raised |-> TRUE,
   calls |-> [get_workspace |-> 1, get_folder |-> 1, get_sheet |-> 0]]

\* except Exception: st.error(...); return pd.DataFrame()
on_root_error(rk) ==
  [rows |-> <<>>, found |-> <<>>, raised |-> FALSE,
   calls |-> [get_workspace |-> 1, get_folder |-> 1, get_sheet |-> 0]]

fetch_result(rk, w, ex) ==
  [rows   |-> ex.rows,
   found  |-> w.found,
   raised |-> ex.raised,
   calls  |-> [get_workspace |-> 1,
               get_folder    |-> (IF rk = "folder" THEN 1 ELSE 0) + w.calls,
               get_sheet     |-> Len(w.found)]]

extract_found(rk, w, sf) == fetch_result(rk, w, extract_all(w.found, sf))

fetch_data_from_api(rk, ff, sf) ==
  IF rk = "none" THEN on_root_error(rk)
  ELSE extract_found(rk, scan(Root, ff), sf)

\* ------------------------------------------------------- digest / views
DateDay == ("2024-06-09" :> 9) @@ ("2024-06-10" :> 10) @@ ("2024-06-16" :> 16)
           @@ ("2024-06-17" :> 17) @@ ("2024-06-18" :> 18)

\* pd.to_datetime(errors='coerce'): a timestamp at midnight, or NaT.
to_datetime(v) ==
  IF v \in DOMAIN DateDay THEN [nat |-> FALSE, t |-> DateDay[v] * TicksPerDay]
  ELSE [nat |-> TRUE, t |-> 0]

normalize(ts) == (ts \div TicksPerDay) * TicksPerDay

timedelta_days(d) == d * TicksPerDay

\* comparisons with NaT are False
ts_lt(a, t) == ~a.nat /\ a.t < t

ts_ge(a, t) == ~a.nat /\ a.t >= t

ts_le(a, t) == ~a.nat /\ a.t <= t

fill_start(r, s, e) ==
  [r EXCEPT !.End_Date = e, !.Start_Date = IF s.nat THEN e ELSE s]

cleanup_row(r) == fill_start(r, to_datetime(r.Start_Date), to_datetime(r.End_Date))

working_df(df) == [i \in 1..Len(df) |-> cleanup_row(df[i])]

people(df) == {df[i].Assigned_To : i \in 1..Len(df)}

filter_person(df, person) ==
  IF person # "All" THEN SelectSeq(df, LAMBDA r : r.Assigned_To = person) ELSE df

timeline_df(wdf, person) ==
  filter_person(SelectSeq(wdf, LAMBDA r : ~r.End_Date.nat), person)

\* mutant: the clock is not normalized to the day
today_of_m(nw) == nw

today_of(nw) == normalize(nw)

overdue_view(tl, today) ==
  SelectSeq(tl, LAMBDA r : ts_lt(r.End_Date, today) /\ r.Status \notin done_statuses)

\* mutant: the end of the window is excluded
urgent_view_m(tl, today) ==
  SelectSeq(tl, LAMBDA r : /\ ts_ge(r.End_Date, today)
                           /\ ~r.End_Date.nat
                           /\ r.End_Date.t < today + timedelta_days(UrgentDays)
                           /\ r.Status \notin done_statuses)

urgent_view(tl, today) ==
  SelectSeq(tl, LAMBDA r : /\ ts_ge(r.End_Date, today)
                           /\ ts_le(r.End_Date, today + timedelta_days(UrgentDays))
                           /\ r.Status \notin done_statuses)

\* ---------------------------------------------------------------- session
\* mutant: an empty cached table counts as cached
need_fetch_m(in_s, df) == ~in_s

need_fetch(in_s, df) == ~in_s \/ df = <<>>

\* One run of the script with the refresh button not pressed.  rk, ff, sf are
\* the outcomes of the remote calls of this run, if it fetches; nw is the clock
\* it reads and person the selectbox choice.  Dashboard is lines 140-322 on the table
\* df: the views, or the no-data message.
Dashboard(need, res, df, tl, nw, person) ==
  /\ person \in (IF df = <<>> THEN {"All"} ELSE {"All"} \cup people(df))
  /\ rerun' = FALSE
  /\ fetched' = need
  /\ raised' = FALSE
  /\ calls' = res.calls
  /\ found_sheets' = res.found
  /\ in_session' = TRUE
  /\ master_df' = df
  /\ now' = nw
  /\ selected_person' = person
  /\ screen' = IF df # <<>> THEN "dashboard" ELSE "nodata"
  /\ overdue' = IF df = <<>> THEN <<>> ELSE overdue_view(tl, today_of(nw))
  /\ urgent' = IF df = <<>> THEN <<>> ELSE urgent_view(tl, today_of(nw))

\* fetch_data_from_api raised: the script run ends where it stands.
Crash(res, nw, person) ==
  /\ person = "All"
  /\ rerun' = FALSE
  /\ fetched' = TRUE
  /\ raised' = TRUE
  /\ calls' = res.calls
  /\ found_sheets' = res.found
  /\ screen' = "exception"
  /\ now' = nw
  /\ selected_person' = person
  /\ overdue' = <<>>
  /\ urgent' = <<>>
  /\ UNCHANGED <<in_session, master_df>>

Fetching(res, Clock, Choices) ==
  \E nw \in Clock, person \in Choices :
    IF res.raised THEN Crash(res, nw, person)
    ELSE Dashboard(TRUE, res, res.rows, timeline_df(working_df(res.rows), person),
                   nw, person)

Cached(wdf, Clock, Choices) ==
  \E nw \in Clock, person \in Choices :
    Dashboard(FALSE, [calls |-> NoCalls, found |-> found_sheets],
              master_df, timeline_df(wdf, person), nw, person)

RunScript(rk, ff, sf, Clock, Choices) ==
  /\ IF need_fetch(in_session, master_df)
     THEN /\ Fetching(fetch_data_from_api(rk, ff, sf), Clock, Choices)
          /\ rootKind' = rk
          /\ failFolders' = (IF rk = "none" THEN {} ELSE ff)
          /\ sheetFail' = sf
     ELSE /\ Cached(working_df(master_df), Clock, Choices)
          /\ UNCHANGED <<rootKind, failFolders, sheetFail>>
  /\ UNCHANGED remoteVars
  /\ UNCHANGED resVars

\* Outcomes: the remote-call outcomes [rk, ff, sf] a fetching run may meet; a
\* run that does not fetch meets none.  Clock: the times the run may read;
\* Choices: the selectbox values the user may have picked.
Render(Outcomes, Clock, Choices) ==
  \E o \in (IF need_fetch(in_session, master_df) THEN Outcomes
            ELSE {[rk |-> rootKind, ff |-> failFolders, sf |-> sheetFail]}) :
    RunScript(o.rk, o.ff, o.sf, Clock, Choices)

\* One run of the script with the refresh button pressed: the cached table is
\* deleted and st.rerun() ends the run.
RefreshClick ==
  /\ screen # "none"
  /\ ~rerun
  /\ in_session' = FALSE
  /\ master_df' = <<>>
  /\ rerun' = TRUE
  /\ fetched' = FALSE
  /\ calls' = NoCalls
  /\ UNCHANGED <<rootKind, failFolders, sheetFail, found_sheets, raised, screen,
                 now, selected_person, overdue, urgent>>
  /\ UNCHANGED remoteVars
  /\ UNCHANGED resVars

\* ------------------------------------------------------------ remote data
Cell(d, v) == [display_value |-> d, value |-> v]

Blank == Cell(None, None)

Title_TaskName == <<"T","a","s","k"," ","N","a","m","e">>

Title_Task == <<"T","a","s","k">>

Title_task_padded == <<" ","t","a","s","k"," ">>

Title_Notes == <<"N","o","t","e","s">>

Title_Status == <<"S","t","a","t","u","s">>

Title_STATUS == <<"S","T","A","T","U","S">>

Title_AssignedTo == <<"A","s","s","i","g","n","e","d"," ","T","o">>

Title_ProjectOwner == <<"P","r","o","j","e","c","t"," ","O","w","n","e","r">>

Title_FinishDate == <<"F","i","n","i","s","h"," ","D","a","t","e">>

Title_finish == <<"f","i","n","i","s","h">>

Col(t, i) == [title |-> t, id |-> i]

\* A schema and, per column, which field of a source row its cells hold.
StdSchema ==
  [cols  |-> <<Col(Title_TaskName, 101), Col(Title_Status, 102),
               Col(Title_AssignedTo, 103), Col(Title_FinishDate, 104)>>,
   holds |-> <<"task", "status", "assign", "end">>]

MessySchema ==
  [cols  |-> <<Col(Title_task_padded, 201), Col(Title_STATUS, 202),
               Col(Title_ProjectOwner, 203), Col(Title_finish, 204)>>,
   holds |-> <<"task", "status", "assign", "end">>]

NoTaskSchema ==
  [cols  |-> <<Col(Title_Notes, 301), Col(Title_Status, 302),
               Col(Title_AssignedTo, 303), Col(Title_FinishDate, 304)>>,
   holds |-> <<"task", "status", "assign", "end">>]

TwoTaskSchema ==
  [cols  |-> <<Col(Title_Task, 401), Col(Title_TaskName, 402),
               Col(Title_Status, 403), Col(Title_Status, 404),
               Col(Title_FinishDate, 405)>>,
   holds |-> <<"blank", "task", "blank", "status", "end">>]

TaskOnlySchema ==
  [cols |-> <<Col(Title_TaskName, 101)>>, holds |-> <<"task">>]

SchemaLib == {StdSchema, MessySchema, NoTaskSchema, TwoTaskSchema}

SrcRow(t, s, a, e) == [task |-> t, status |-> s, assign |-> a, end |-> e, blank |-> Blank]

Both(v) == Cell(v, v)

Raw(v) == Cell(None, v)

\* rows for the extraction cases
X_EditVideo == SrcRow(Raw("Edit Video"), Blank, Blank, Blank)

X_Shoot == SrcRow(Both("Shoot B-roll"), Both("In Progress"), Both("Ann"), Raw("2024-06-09"))

X_NoTask == SrcRow(Blank, Both("Complete"), Both("Bob"), Raw("2024-06-10"))

X_EmptyTask == SrcRow(Cell("", ""), Blank, Blank, Blank)

ExtractRowLib == {X_EditVideo, X_Shoot, X_NoTask, X_EmptyTask}

\* rows for the view cases
V(s, a, e) == SrcRow(Both("Cut"), Both(s), Both(a), Raw(e))

ViewRowLib ==
  { V("In Progress", "Ann", "2024-06-09"), V("Complete", "Bob", "2024-06-09"),
    V("In Progress", "Ann", "2024-06-10"), V("In Progress", "Bob", "2024-06-17"),
    V("In Progress", "Ann", "2024-06-18"), V("In Progress", "Bob", "TBD"),
    V("In Progress", "Bob", "2024-06-16") }

\* The rows of sheet s as the service returns them.
Materialize(s, schema, src) ==
  [j \in 1..Len(src) |->
     [cells |-> [i \in 1..Len(schema.cols) |->
                   [column_id     |-> schema.cols[i].id,
                    display_value |-> src[j][schema.holds[i]].display_value,
                    value         |-> src[j][schema.holds[i]].value]],
      permalink |-> <<s, j>>]]

Name_ProjectPlan == <<"P","r","o","j","e","c","t"," ","P","l","a","n">>

Name_Upper == <<"q","3"," ","P","R","O","J","E","C","T"," ","P","L","A","N","S">>

Name_Budget == <<"P","r","o","j","e","c","t"," ","B","u","d","g","e","t">>

SheetNameLib == {Name_ProjectPlan, Name_Upper, Name_Budget}

NoFail == [stage |-> "none", row |-> 0]

FailModes(n) ==
  {NoFail, [stage |-> "get_sheet", row |-> 0]}
    \cup {[stage |-> "row", row |-> k] : k \in 1..n}

Nows == {10 * TicksPerDay + h : h \in 0..(TicksPerDay - 1)}

NoSheetFail == [s \in Sheets |-> NoFail]

InitSession ==
  /\ rootKind = "workspace"
  /\ failFolders = {}
  /\ sheetFail = NoSheetFail
  /\ in_session = FALSE
  /\ master_df = <<>>
  /\ rerun = FALSE
  /\ fetched = FALSE
  /\ calls = NoCalls
  /\ found_sheets = <<>>
  /\ raised = FALSE
  /\ screen = "none"
  /\ now = 10 * TicksPerDay
  /\ selected_person = "All"
  /\ overdue = <<>>
  /\ urgent = <<>>

InitNoResolve ==
  /\ res_schema = <<>>
  /\ res_aliases = <<>>
  /\ res_col = NoCol
  /\ res_done = FALSE

\* A flat remote: sheet 1 in the root, the others in folder 1.
FlatTree(otherNames) ==
  /\ parent = [f \in Folders |-> Root]
  /\ sheetLoc = [s \in Sheets |-> IF s = 1 THEN Root ELSE 1]
  /\ sheetName = [s \in Sheets |-> IF s = 1 THEN Name_ProjectPlan ELSE otherNames]

FixedRows == <<X_Shoot, X_EditVideo>>

\* ---- Spec: the session, over one varied sheet of dated rows
Init ==
  /\ FlatTree(Name_Budget)
  /\ \E src \in SeqUpTo(ViewRowLib, MaxRows) :
       /\ sheetCols = [s \in Sheets |-> StdSchema.cols]
       /\ sheetRows = [s \in Sheets |->
                         Materialize(s, StdSchema, IF s = 1 THEN src ELSE <<X_Shoot>>)]
  /\ InitSession
  /\ InitNoResolve

Persons == {"All", "Ann", "Bob", "Unassigned"}

SessionOutcomes ==
  [rk : {"workspace", "folder", "none"}, ff : {{}}, sf : {NoSheetFail}]

Next ==
  \/ Render(SessionOutcomes, Nows, Persons)
  \/ RefreshClick

Spec == Init /\ [][Next]_vars

\* ---- SpecWalk: every tree shape and sheet placement, folder fetches failing.
\* Sheets are numbered in the order of their containers (any placement is one
\* of these after renumbering the sheets).
TreeShapes == {p \in [Folders -> Containers] : \A f \in Folders : p[f] < f}

InitWalk ==
  /\ parent \in TreeShapes
  /\ sheetLoc \in {l \in [Sheets -> Containers] :
                     \A a, b \in Sheets : a < b => l[a] <= l[b]}
  /\ sheetName \in [Sheets -> SheetNameLib]
  /\ sheetCols = [s \in Sheets |-> TaskOnlySchema.cols]
  /\ sheetRows = [s \in Sheets |-> Materialize(s, TaskOnlySchema, <<X_Shoot>>)]
  /\ InitSession
  /\ InitNoResolve

WalkOutcomes ==
  [rk : {"folder"}, ff : SUBSET Folders, sf : {NoSheetFail}]

NextWalk ==
  \/ Render(WalkOutcomes, {10 * TicksPerDay}, {"All"})
  \/ RefreshClick

SpecWalk == InitWalk /\ [][NextWalk]_vars

\* ---- SpecExtract: every schema and row sequence of sheet 1, sheet reads failing
InitExtract ==
  /\ FlatTree(Name_Upper)
  /\ \E sc \in SchemaLib, src \in SeqUpTo(ExtractRowLib, MaxRows) :
       /\ sheetCols = [s \in Sheets |-> IF s = 1 THEN sc.cols ELSE StdSchema.cols]
       /\ sheetRows = [s \in Sheets |->
                         IF s = 1 THEN Materialize(s, sc, src)
                         ELSE Materialize(s, StdSchema, FixedRows)]
  /\ InitSession
  /\ InitNoResolve

ExtractOutcomes ==
  [rk : {"workspace"}, ff : {{}},
   sf : {f \in [Sheets -> FailModes(MaxRows)] :
           \A s \in Sheets : s > 1 => f[s].stage # "row"}]

NextExtract ==
  \/ Render(ExtractOutcomes, {10 * TicksPerDay}, {"All"})
  \/ RefreshClick

SpecExtract == InitExtract /\ [][NextExtract]_vars

\* ---- SpecResolve: get_specific_col_id on every schema and alias list
TitleLib == {Title_TaskName, Title_task_padded, Title_Task, Title_STATUS, Title_Notes}

AliasLib ==
  {END_ALIASES, START_ALIASES, STATUS_ALIASES, ASSIGN_ALIASES, TASK_ALIASES,
   <<Title_task_padded, Title_Notes>>, <<>>}

SchemaOf(titles) == [i \in 1..Len(titles) |-> Col(titles[i], 500 + i)]

InitResolve ==
  /\ FlatTree(Name_Upper)
  /\ sheetCols = [s \in Sheets |-> StdSchema.cols]
  /\ sheetRows = [s \in Sheets |-> Materialize(s, StdSchema, <<X_Shoot>>)]
  /\ InitSession
  /\ res_schema \in {SchemaOf(ts) : ts \in SeqUpTo(TitleLib, MaxCols)}
  /\ res_aliases \in AliasLib
  /\ res_col = NoCol
  /\ res_done = FALSE

ResolveCol ==
  /\ ~res_done
  /\ res_col' = get_specific_col_id(res_schema, res_aliases)
  /\ res_done' = TRUE
  /\ UNCHANGED <<res_schema, res_aliases>>
  /\ UNCHANGED remoteVars
  /\ UNCHANGED <<rootKind, failFolders, sheetFail, in_session, master_df, rerun,
                 fetched, calls, found_sheets, raised, screen, now,
                 selected_person, overdue, urgent>>

NextResolve == ResolveCol

SpecResolve == InitResolve /\ [][NextResolve]_vars

\* ================================================================= claims
\* The name of sheet s contains the keyword, compared character by character
\* without regard to case.
KeywordAt(name, off) ==
  \A k \in 1..Len(TARGET_FILE_KEYWORD) :
    lower_char(name[off + k]) = lower_char(TARGET_FILE_KEYWORD[k])

KeywordInName(s) ==
  \E off \in 0..(Len(sheetName[s]) - Len(TARGET_FILE_KEYWORD)) :
    KeywordAt(sheetName[s], off)

FoundAt(s) == {i \in 1..Len(found_sheets) : found_sheets[i].sheet = s}

\* A fetch cycle has run and its root resolved.
Walked == screen # "none" /\ rootKind # "none"

ContextIsParent(item) == item.context = ContainerName(sheetLoc[item.sheet])

\* C1: when every folder fetch succeeds, the walk from the root returns exactly
\* the sheets whose name contains the keyword (case-insensitively), at any depth,
\* each once, each tagged with the name of the container that holds it.
C1_WalkFindsEveryMatch ==
  (Walked /\ failFolders = {}) =>
    /\ \A s \in Sheets :
         Cardinality(FoundAt(s)) = IF KeywordInName(s) THEN 1 ELSE 0
    /\ \A i \in 1..Len(found_sheets) : ContextIsParent(found_sheets[i])

NestedUpper(s) ==
  /\ sheetLoc[s] \in Folders
  /\ parent[sheetLoc[s]] \in Folders
  /\ sheetName[s] = Name_Upper

C1_Witness ==
  /\ Walked
  /\ failFolders = {}
  /\ \E i \in 1..Len(found_sheets) : NestedUpper(found_sheets[i].sheet)
  /\ \E t \in Sheets : ~KeywordInName(t) /\ FoundAt(t) = {}

\* Container c is reached by the walk: no folder on the path from the root to c
\* (c included) had its fetch fail.
RECURSIVE Reachable(_)
Reachable(c) == c = Root \/ (c \notin failFolders /\ Reachable(parent[c]))

\* C4: a failed folder fetch skips that folder's subtree only: the walk ends
\* normally and finds every matching sheet whose containers were all fetched,
\* those before the failure and those in later siblings alike.
C4_FailedFolderSkipsOnlyItsSubtree ==
  Walked =>
    /\ ~raised
    /\ in_session \/ rerun
    /\ \A s \in Sheets :
         Cardinality(FoundAt(s)) =
           IF KeywordInName(s) /\ Reachable(sheetLoc[s]) THEN 1 ELSE 0

C4_Witness ==
  /\ Walked
  /\ failFolders = {1}
  /\ parent[2] = Root
  /\ Len(found_sheets) = 2
  /\ sheetLoc[found_sheets[1].sheet] = Root
  /\ sheetLoc[found_sheets[2].sheet] = 2

Healthy(s) == ~sheet_failed(sheetFail[s], Len(sheetRows[s]))

FromHealthy(df) == SelectSeq(df, LAMBDA r : Healthy(r.Link[1]))

Fetched == in_session /\ rootKind # "none"

\* C2: when reading a discovered sheet raises, the fetch still ends normally and
\* the table holds every row of the other sheets, in the order a fetch without
\* the failure gives them.
C2_OtherSheetsRowsSurvive ==
  /\ ~raised
  /\ screen # "exception"
  /\ Fetched =>
       FromHealthy(master_df)
         = FromHealthy(fetch_data_from_api(rootKind, failFolders, NoSheetFail).rows)

C2_Witness ==
  /\ Fetched
  /\ Len(sheetRows[1]) = 2
  /\ sheetFail[1] = [stage |-> "row", row |-> 2]
  /\ Len(found_sheets) >= 2
  /\ Len(FromHealthy(master_df)) = 2

\* C3: a sheet whose extraction failed, on the fetch or part-way through its
\* rows, has no row in the table.
C3_FailedSheetContributesNothing ==
  Fetched => \A i \in 1..Len(master_df) : Healthy(master_df[i].Link[1])

RowsWithLink(df, l) == {i \in 1..Len(df) : df[i].Link = l}

TaskOf(s, j) ==
  get_cell_value(sheetRows[s][j], get_specific_col_id(sheetCols[s], TASK_ALIASES))

AssigneeOf(s, j) ==
  get_cell_value(sheetRows[s][j], get_specific_col_id(sheetCols[s], ASSIGN_ALIASES))

StatusOf(s, j) ==
  get_cell_value(sheetRows[s][j], get_specific_col_id(sheetCols[s], STATUS_ALIASES))

RowAsPolicy(r, task, asg, st) ==
  /\ r.Task = task
  /\ r.Assigned_To = (IF asg \in {None, ""} THEN "Unassigned" ELSE asg)
  /\ r.Status = (IF st \in {None, ""} THEN "Not Started" ELSE st)

NeedsTask(df, at, task, asg, st) ==
  IF task \in {None, ""} THEN at = {}
  ELSE Cardinality(at) = 1 /\ \A i \in at : RowAsPolicy(df[i], task, asg, st)

\* C7: a source row the extraction reads yields a row of the table if and only
\* if its task resolves to a non-empty value, whatever its assignee and end date;
\* a kept row without assignee or status gets "Unassigned" and "Not Started".
C7_NeedsTaskPolicy ==
  Fetched =>
    \A i \in 1..Len(found_sheets) :
      \A j \in 1..rows_reached(sheetFail[found_sheets[i].sheet],
                               Len(sheetRows[found_sheets[i].sheet])) :
        NeedsTask(master_df,
                  RowsWithLink(master_df, <<found_sheets[i].sheet, j>>),
                  TaskOf(found_sheets[i].sheet, j),
                  AssigneeOf(found_sheets[i].sheet, j),
                  StatusOf(found_sheets[i].sheet, j))

C7_Witness ==
  /\ Fetched
  /\ sheetFail = NoSheetFail
  /\ sheetRows[1] = Materialize(1, StdSchema, <<X_EditVideo, X_NoTask>>)
  /\ sheetCols[1] = StdSchema.cols
  /\ RowsWithLink(master_df, <<1, 2>>) = {}
  /\ master_df[1].Link = <<1, 1>>
  /\ master_df[1].Task = "Edit Video"
  /\ master_df[1].Assigned_To = "Unassigned"
  /\ master_df[1].Status = "Not Started"
  /\ master_df[1].End_Date = None

Rendered == in_session /\ screen = "dashboard"

PersonShown(r) == selected_person = "All" \/ r.Assigned_To = selected_person

InView(view, l) == \E k \in 1..Len(view) : view[k].Link = l

ViewOfTable(view, df) ==
  /\ \A k \in 1..Len(view) : RowsWithLink(df, view[k].Link) # {}
  /\ \A k, m \in 1..Len(view) : view[k].Link = view[m].Link => k = m

Today == now \div TicksPerDay

OverdueByDay(r) ==
  /\ PersonShown(r)
  /\ r.End_Date \in DOMAIN DateDay
  /\ DateDay[r.End_Date] < Today
  /\ r.Status \notin done_statuses

\* C8: the overdue view holds exactly the rows of the person-filtered table whose
\* end date is a day strictly before the current day and whose status is not
\* terminal.
C8_OverdueView ==
  Rendered =>
    /\ ViewOfTable(overdue, master_df)
    /\ \A i \in 1..Len(master_df) :
         InView(overdue, master_df[i].Link) <=> OverdueByDay(master_df[i])

C8_Witness ==
  /\ Rendered
  /\ now % TicksPerDay # 0
  /\ Len(overdue) = 1
  /\ overdue[1].Status = "In Progress"
  /\ overdue[1].End_Date.t = 9 * TicksPerDay
  /\ \E i \in 1..Len(master_df) :
       /\ master_df[i].End_Date = "2024-06-09"
       /\ master_df[i].Status = "Complete"
       /\ ~InView(overdue, master_df[i].Link)

UrgentByDay(r) ==
  /\ PersonShown(r)
  /\ r.End_Date \in DOMAIN DateDay
  /\ DateDay[r.End_Date] >= Today
  /\ DateDay[r.End_Date] <= Today + UrgentDays
  /\ r.Status \notin done_statuses

\* C9: the 7-day upcoming view holds exactly the rows with a non-terminal status
\* whose end date is a day from the current day to 7 days after it, both
\* included, whatever the time of day of the run.
C9_UrgentView ==
  Rendered =>
    /\ ViewOfTable(urgent, master_df)
    /\ \A i \in 1..Len(master_df) :
         InView(urgent, master_df[i].Link) <=> UrgentByDay(master_df[i])

C9_Witness ==
  /\ Rendered
  /\ now % TicksPerDay # 0
  /\ \E k \in 1..Len(urgent) : urgent[k].End_Date.t = 10 * TicksPerDay
  /\ \E i \in 1..Len(master_df) :
       /\ master_df[i].End_Date = "2024-06-18"
       /\ master_df[i].Status = "In Progress"
       /\ ~InView(urgent, master_df[i].Link)

\* What a fetch whose root resolves as neither kind leaves behind.
RootFailureResult ==
  /\ calls = [get_workspace |-> 1, get_folder |-> 1, get_sheet |-> 0]
  /\ found_sheets = <<>>
  /\ in_session
  /\ master_df = <<>>
  /\ ~raised
  /\ screen = "nodata"

TitleMatches(col, aliases) ==
  \E n \in 1..Len(aliases) : clean(col.title) = clean(aliases[n])

\* C10: get_specific_col_id returns the id of a column of the schema whose
\* trimmed, lower-cased title equals a trimmed, lower-cased alias, or None when
\* no alias matches any column; never an id that is not in the schema.
C10_ResolvedIdIsInSchema ==
  res_done =>
    IF \E i \in 1..Len(res_schema) : TitleMatches(res_schema[i], res_aliases)
    THEN \E i \in 1..Len(res_schema) :
           res_schema[i].id = res_col /\ TitleMatches(res_schema[i], res_aliases)
    ELSE res_col = NoCol

C10_Witness ==
  /\ res_done
  /\ res_aliases = TASK_ALIASES
  /\ Len(res_schema) >= 2
  /\ \E i \in 1..Len(res_schema) :
       res_schema[i].id = res_col /\ res_schema[i].title = Title_task_padded

====
